---------------------------- MODULE Spec2Model ----------------------------
(***************************************************************************)
(* Ingestion-and-enrichment pipeline of lab04-serverless-localstack.       *)
(*                                                                         *)
(* Two Lambda handlers are modelled, each cut at its await points:         *)
(*   - dataProcessor (batch path): getObject -> decode CSV -> per row      *)
(*     validate / enrich / putItem -> publishMessage -> result;            *)
(*   - createRecord (API path): method check -> JSON.parse -> validate ->  *)
(*     enrich -> putItem -> publishMessage -> response.                    *)
(* The store (DynamoDB), the object source (S3), the notifier (SNS) and    *)
(* the clock (Date.now) are the environment: each call either succeeds or  *)
(* throws, and the clock never goes back.                                  *)
(***************************************************************************)
EXTENDS Integers, Sequences, FiniteSets, TLC

(***************************************************************************)
(* Bounds of the model.                                                    *)
(***************************************************************************)
MaxLines == 3        \* lines of a CSV object after its first line

(***************************************************************************)
(* JavaScript values, written as strings: a string is itself, a number is  *)
(* its literal after '#', undefined and null are the two marks below.  CSV *)
(* cells are strings, or undefined when the row is shorter than the        *)
(* header; JSON bodies also carry numbers and null.                        *)
(***************************************************************************)
Undefined == "<undefined>"
Null == "<null>"

\* String.prototype.trim on the cells this model draws from.
Trim(s) ==
  CASE s = " 2 "   -> "2"
    [] s = "  "    -> ""
    [] s = " id "  -> "id"
    [] s = " nome" -> "nome"
    [] OTHER       -> s

\* !v: undefined, null, the empty string and the number 0 are falsy.
Falsy(v) == v \in { Undefined, Null, "", "#0" }

\* The texts and numbers of this model that parseFloat and parseInt read a
\* number from; every other value gives NaN.
Numeric == { "9.5", "3", "-4", "0", "#9.5", "#3", "#-4", "#0" }

\* parseFloat(v): is the result NaN, and else its value in tenths.
ParseFloatIsNaN(v) == v \notin Numeric

ParseFloatTenths(v) ==
  CASE v \in { "9.5", "#9.5" } -> 95
    [] v \in { "3", "#3" }     -> 30
    [] v \in { "-4", "#-4" }   -> -40
    [] OTHER                   -> 0

\* parseInt(v): is the result NaN, and else the integer the text starts with.
ParseIntIsNaN(v) == v \notin Numeric

ParseIntValue(v) ==
  CASE v \in { "9.5", "#9.5" } -> 9
    [] v \in { "3", "#3" }     -> 3
    [] v \in { "-4", "#-4" }   -> -4
    [] OTHER                   -> 0

\* parseFloat(x) || 0, in tenths: NaN and 0 are both falsy.
PrecoOf(v) == IF ParseFloatIsNaN(v) THEN 0 ELSE ParseFloatTenths(v)

\* parseInt(x) || 0
EstoqueOf(v) == IF ParseIntIsNaN(v) THEN 0 ELSE ParseIntValue(v)

(***************************************************************************)
(* CSV objects.  A line is the list of cells line.split(',') yields; an    *)
(* object is the list of its lines (split on '\n').                        *)
(***************************************************************************)
HeaderLines ==
  { <<"id", "nome", "preco", "estoque">>,
    <<" id ", " nome">>,
    <<"nome", "categoria">> }

DataLines ==
  { <<"1", "Ana", "9.5", "3">>,
    <<" 2 ", "Bob", "abc", "-4">>,
    <<"", "Cid">>,
    <<"", "">>,
    <<"3">>,
    <<"">>,
    <<"  ">> }

RECURSIVE SeqsUpTo(_, _)
SeqsUpTo(S, n) ==
  IF n = 0 THEN { <<>> }
  ELSE LET shorter == SeqsUpTo(S, n - 1)
       IN shorter \cup { Append(s, x) : s \in { t \in shorter : Len(t) = n - 1 }, x \in S }

CsvObjects ==
  { <<h>> \o rows : h \in HeaderLines \cup { <<"">> }, rows \in SeqsUpTo(DataLines, MaxLines) }

\* line.trim() === '' : a line with a comma is never blank.
IsBlank(line) == Len(line) = 1 /\ Trim(line[1]) = ""

RECURSIVE DropLeadingBlank(_)
DropLeadingBlank(ls) ==
  IF ls = <<>> THEN <<>>
  ELSE IF IsBlank(Head(ls)) THEN DropLeadingBlank(Tail(ls))
  ELSE ls

RECURSIVE DropTrailingBlank(_)
DropTrailingBlank(ls) ==
  IF ls = <<>> THEN <<>>
  ELSE IF IsBlank(ls[Len(ls)]) THEN DropTrailingBlank(SubSeq(ls, 1, Len(ls) - 1))
  ELSE ls

\* csvContent.trim().split('\n'): whitespace at both ends of the text, line
\* breaks included, is removed before the split; the empty text splits into
\* one empty line.  (The cells at both ends are trimmed again cell by cell.)
SplitLines(content) ==
  LET kept == DropTrailingBlank(DropLeadingBlank(content))
  IN IF kept = <<>> THEN << <<"">> >> ELSE kept

\* line.split(',').map(v => v.trim())
TrimCells(line) == [k \in 1..Len(line) |-> Trim(line[k])]

\* headers.forEach((header, index) => record[header] = values[index]);
\* then record[name]: the last column of that name wins, a short row leaves
\* the cell undefined, a name that is no header is undefined.
RowField(hdrs, values, name) ==
  LET cols == { k \in 1..Len(hdrs) : hdrs[k] = name }
  IN IF cols = {} THEN Undefined
     ELSE LET k == CHOOSE c \in cols : \A d \in cols : d <= c
          IN IF k <= Len(values) THEN values[k] ELSE Undefined

\* Variant of RowIncomplete: && in place of ||.
RowIncomplete_Both(hdrs, values) ==
  Falsy(RowField(hdrs, values, "id")) /\ Falsy(RowField(hdrs, values, "nome"))

\* Variant of RowIncomplete: a row whose preco is not a number is rejected
\* too.
RowIncomplete_Numeric(hdrs, values) ==
  \/ Falsy(RowField(hdrs, values, "id"))
  \/ Falsy(RowField(hdrs, values, "nome"))
  \/ ParseFloatIsNaN(RowField(hdrs, values, "preco"))

\* if (!record.id || !record.nome)
RowIncomplete(hdrs, values) ==
  Falsy(RowField(hdrs, values, "id")) \/ Falsy(RowField(hdrs, values, "nome"))

\* x || dflt
OrDefault(x, dflt) == IF Falsy(x) THEN dflt ELSE x

\* The enriched record of a CSV row read at clock value t.
EnrichedRecord(hdrs, values, t) ==
  [ id        |-> RowField(hdrs, values, "id"),
    timestamp |-> t,
    nome      |-> RowField(hdrs, values, "nome"),
    categoria |-> OrDefault(RowField(hdrs, values, "categoria"), "Sem categoria"),
    preco     |-> PrecoOf(RowField(hdrs, values, "preco")),
    estoque   |-> EstoqueOf(RowField(hdrs, values, "estoque")),
    source    |-> "file" ]   \* source_file: key

(***************************************************************************)
(* HTTP requests of the API path.  event.body is absent, null, a string    *)
(* (the JSON text API Gateway passes on) or an object (a direct invoke).   *)
(* A body value is a record: its type, its text when it is a string, its   *)
(* properties when it is an object (undefined for a property it lacks).    *)
(***************************************************************************)
BodyValue(type, text, id, nome, preco, estoque) ==
  [ type |-> type, text |-> text, id |-> id, nome |-> nome,
    categoria |-> Undefined, preco |-> preco, estoque |-> estoque ]

Primitive(type, text) == BodyValue(type, text, Undefined, Undefined, Undefined, Undefined)

Object(id, nome, preco, estoque) == BodyValue("object", "", id, nome, preco, estoque)

UnsetBody == Primitive("unset", "")

JsonTexts ==
  { "{\"nome\":\"Widget\"}",
    "{\"id\":\"7\",\"nome\":\"Gadget\",\"preco\":\"abc\",\"estoque\":-4}",
    "{\"id\":7,\"nome\":\"Gadget\",\"preco\":9.5,\"estoque\":3}",
    "{\"nome\":\"\"}",
    "{\"id\":\"7\"}",
    "{nome",
    "",
    "null",
    "5" }

\* JSON.parse(text) throws a SyntaxError.
JsonParseThrows(text) == text \in { "{nome", "" }

\* JSON.parse(text) of a text that parses.
JsonParse(text) ==
  CASE text = "{\"nome\":\"Widget\"}" -> Object(Undefined, "Widget", Undefined, Undefined)
    [] text = "{\"id\":\"7\",\"nome\":\"Gadget\",\"preco\":\"abc\",\"estoque\":-4}"
                                     -> Object("7", "Gadget", "abc", "#-4")
    [] text = "{\"id\":7,\"nome\":\"Gadget\",\"preco\":9.5,\"estoque\":3}"
                                     -> Object("#7", "Gadget", "#9.5", "#3")
    [] text = "{\"nome\":\"\"}"        -> Object(Undefined, "", Undefined, Undefined)
    [] text = "{\"id\":\"7\"}"         -> Object("7", Undefined, Undefined, Undefined)
    [] text = "null"                 -> Primitive("null", "")
    [] text = "5"                    -> Primitive("number", "")

EventBodies ==
  { Primitive("undefined", ""), Primitive("null", "") }
    \cup { Primitive("string", t) : t \in JsonTexts }
    \cup { Object(Undefined, "Widget", "#3", Undefined), Object("8", Undefined, Undefined, Undefined) }

HttpMethods == { "OPTIONS", "POST", "GET", "DELETE" }

Events == [ httpMethod : HttpMethods, body : EventBodies ]

NoEvent == [ httpMethod |-> Undefined, body |-> UnsetBody ]

\* typeof event.body === 'string'
IsString(b) == b.type = "string"

\* Reading a property of undefined or of null throws a TypeError.
PropertyReadThrows(b) == b.type \in { "undefined", "null" }

\* uuidv4(): a random 122-bit identifier, one that no record carries yet.
Uuids == { "uuid-1", "uuid-2" }

FreshUuids(tbl) == Uuids \ { x.id : x \in tbl }

\* The item built from a validated body at clock value t.
Item(body_, uuid, t) ==
  [ id        |-> OrDefault(body_.id, uuid),
    timestamp |-> t,
    nome      |-> body_.nome,
    categoria |-> OrDefault(body_.categoria, "API"),
    preco     |-> PrecoOf(body_.preco),
    estoque   |-> EstoqueOf(body_.estoque),
    source    |-> "API" ]

\* The responses of createRecord, with the CORS headers left out.
Response(status, err, msg, item_) ==
  [ statusCode |-> status,
    body |-> [ error |-> err, message |-> msg, id |-> item_.id,
               timestamp |-> item_.timestamp, data |-> item_ ] ]

(***************************************************************************)
(* State.  One behaviour is one invocation of one of the two handlers, on  *)
(* a worker of its own.                                                    *)
(***************************************************************************)
VARIABLES
  TOPIC_ARN,       \* process.env.TOPIC_ARN ("" when not configured)
  now,             \* the clock Date.now() reads
  table,           \* the DynamoDB table: the items stored, one per (id, timestamp)
  tableBefore,     \* the table as the invocation found it
  handler,         \* the handler invoked
  pc,              \* position of the running handler
  csvContent,      \* dataProcessor: the text getObject returned, line by line
  lines,           \* dataProcessor: csvContent.trim().split('\n')
  headers,         \* dataProcessor: trimmed cells of lines[0]
  i,               \* dataProcessor: loop index (0-based, as in the source)
  processedCount,  \* dataProcessor
  errorCount,      \* dataProcessor
  records,         \* dataProcessor: enriched records stored so far
  enrichedRecord,  \* dataProcessor: the record handed to putItem
  event,           \* createRecord: the request
  body,            \* createRecord: the interpreted body
  item,            \* createRecord: the item handed to putItem
  error,           \* message of the error the outer catch received
  result,          \* what the handler returned
  published,       \* messages SNS accepted during this invocation
  publishCalls,    \* messages handed to publishMessage during this invocation
  putCalls,        \* putItem calls of this invocation: the item, and the CSV
                   \* line it comes from (0 on the API path)
  console          \* per-row console output of this invocation: warn for a
                   \* rejected row, log for a stored row, error for a row
                   \* whose putItem threw, with the line number printed

vars == << TOPIC_ARN, now, table, tableBefore, publishCalls, handler, pc, csvContent, lines, headers, i,
           processedCount, errorCount, records, enrichedRecord, event, body, item,
           error, result, published, putCalls, console >>

locals == << csvContent, lines, headers, i, processedCount, errorCount, records, enrichedRecord >>

apiLocals == << event, body, item >>

NoItem ==
  [ id |-> Undefined, timestamp |-> 0, nome |-> Undefined, categoria |-> Undefined,
    preco |-> 0, estoque |-> 0, source |-> Undefined ]
NoResult == [ statusCode |-> 0 ]
TopicArn == "arn:aws:sns:us-east-1:000000000000:DataProcessingTopic"

\* What earlier invocations may have left in the table: nothing, or the
\* record of a CSV row and the record of an API call.
PriorTables ==
  { {},
    { EnrichedRecord(<<"id", "nome", "preco", "estoque">>, <<"1", "Ana", "9.5", "3">>, 0),
      Item(Object(Undefined, "Widget", Undefined, Undefined), "uuid-1", 0) } }

Init ==
  /\ TOPIC_ARN \in { "", TopicArn }
  /\ now = 1                       \* the records of PriorTables are in the past
  /\ table \in PriorTables
  /\ tableBefore = table
  /\ publishCalls = <<>>
  /\ handler = "none"
  /\ pc = "idle"
  /\ csvContent = <<>>
  /\ lines = <<>>
  /\ headers = <<>>
  /\ i = 0
  /\ processedCount = 0
  /\ errorCount = 0
  /\ records = <<>>
  /\ enrichedRecord = NoItem
  /\ event = NoEvent
  /\ body = UnsetBody
  /\ item = NoItem
  /\ error = ""
  /\ result = NoResult
  /\ published = <<>>
  /\ putCalls = <<>>
  /\ console = <<>>

(***************************************************************************)
(* The environment.                                                        *)
(***************************************************************************)
\* dynamodb.put: the item replaces the stored item with the same key.
Put(tbl, item_) ==
  { x \in tbl : ~(x.id = item_.id /\ x.timestamp = item_.timestamp) } \cup { item_ }

(***************************************************************************)
(* dataProcessor: exports.handler of the batch path.                       *)
(***************************************************************************)
\* The S3 event arrives; event.Records[0] of an event without records throws
\* inside the outer try.
dataProcessorInvoke ==
  /\ pc = "idle"
  /\ handler' = "dataProcessor"
  /\ \E wellFormed \in BOOLEAN :
       IF wellFormed
       THEN pc' = "getObject" /\ error' = error
       ELSE pc' = "catch" /\ error' = "TypeError"
  /\ UNCHANGED << TOPIC_ARN, tableBefore, publishCalls, now, table, locals, apiLocals, result, published,
                  putCalls, console >>

\* await getObject(bucket, key) returns the text; lines and headers are
\* decoded and the loop starts at i = 1.
dataProcessorGetObject ==
  /\ pc = "getObject"
  /\ csvContent' \in CsvObjects
  /\ lines' = SplitLines(csvContent')
  /\ headers' = TrimCells(lines'[1])
  /\ i' = 1
  /\ pc' = "loop"
  /\ UNCHANGED << TOPIC_ARN, tableBefore, publishCalls, now, table, handler, apiLocals, processedCount, errorCount,
                  records, enrichedRecord, error, result, published, putCalls, console >>

\* await getObject(bucket, key) throws: the outer catch takes over.
dataProcessorGetObjectThrows ==
  /\ pc = "getObject"
  /\ error' = "NoSuchKey"
  /\ pc' = "catch"
  /\ UNCHANGED << TOPIC_ARN, tableBefore, publishCalls, now, table, handler, apiLocals, locals, result, published,
                  putCalls, console >>

\* if (!line) continue;
dataProcessorSkipBlank ==
  /\ pc = "loop"
  /\ i < Len(lines)
  /\ IsBlank(lines[i + 1])
  /\ i' = i + 1
  /\ UNCHANGED << TOPIC_ARN, tableBefore, publishCalls, now, table, handler, apiLocals, pc, csvContent, lines, headers,
                  processedCount, errorCount, records, enrichedRecord, error, result,
                  published, putCalls, console >>

\* Variant of dataProcessorReject: the rejected row is not counted.
dataProcessorReject_Uncounted ==
  /\ pc = "loop"
  /\ i < Len(lines)
  /\ ~IsBlank(lines[i + 1])
  /\ RowIncomplete(headers, TrimCells(lines[i + 1]))
  /\ console' = Append(console, [ level |-> "warn", line |-> i + 1 ])
  /\ i' = i + 1
  /\ UNCHANGED << TOPIC_ARN, tableBefore, publishCalls, now, table, handler, apiLocals, pc, csvContent, lines,
                  headers, processedCount, errorCount, records, enrichedRecord, error,
                  result, published, putCalls >>

\* if (!record.id || !record.nome) { console.warn; errorCount++; continue; }
dataProcessorReject ==
  /\ pc = "loop"
  /\ i < Len(lines)
  /\ ~IsBlank(lines[i + 1])
  /\ RowIncomplete(headers, TrimCells(lines[i + 1]))
  /\ console' = Append(console, [ level |-> "warn", line |-> i + 1 ])
  /\ errorCount' = errorCount + 1
  /\ i' = i + 1
  /\ UNCHANGED << TOPIC_ARN, tableBefore, publishCalls, now, table, handler, apiLocals, pc, csvContent, lines, headers,
                  processedCount, records, enrichedRecord, error, result, published,
                  putCalls >>

\* The row is complete: the record is enriched (Date.now() is read) and
\* handed to putItem.
dataProcessorEnrich ==
  /\ pc = "loop"
  /\ i < Len(lines)
  /\ ~IsBlank(lines[i + 1])
  /\ ~RowIncomplete(headers, TrimCells(lines[i + 1]))
  /\ \E t \in { now, now + 1 } :
       /\ now' = t
       /\ enrichedRecord' = EnrichedRecord(headers, TrimCells(lines[i + 1]), t)
  /\ putCalls' = Append(putCalls, [ line |-> i + 1, item |-> enrichedRecord' ])
  /\ pc' = "putItem"
  /\ UNCHANGED << TOPIC_ARN, tableBefore, publishCalls, table, handler, apiLocals, csvContent, lines, headers, i, processedCount,
                  errorCount, records, error, result, published, console >>

\* await putItem(enrichedRecord) returns: records.push; processedCount++.
dataProcessorPutItem ==
  /\ pc = "putItem"
  /\ table' = Put(table, enrichedRecord)
  /\ records' = Append(records, enrichedRecord)
  /\ processedCount' = processedCount + 1
  /\ console' = Append(console, [ level |-> "log", line |-> i + 1 ])
  /\ i' = i + 1
  /\ pc' = "loop"
  /\ UNCHANGED << TOPIC_ARN, tableBefore, publishCalls, now, handler, apiLocals, csvContent, lines, headers, errorCount,
                  enrichedRecord, error, result, published, putCalls >>

\* Variant of dataProcessorPutItemThrows: the failed row is tried again.
dataProcessorPutItemThrows_Retries ==
  /\ pc = "putItem"
  /\ console' = Append(console, [ level |-> "error", line |-> i + 1 ])
  /\ errorCount' = errorCount + 1
  /\ pc' = "loop"
  /\ UNCHANGED << TOPIC_ARN, tableBefore, publishCalls, now, table, handler, apiLocals,
                  csvContent, lines, headers, i, processedCount, records, enrichedRecord,
                  error, result, published, putCalls >>

\* Variant of dataProcessorPutItemThrows: no try around the row, the error
\* reaches the outer catch.
dataProcessorPutItemThrows_Escapes ==
  /\ pc = "putItem"
  /\ error' = "PutFailed"
  /\ pc' = "catch"
  /\ UNCHANGED << TOPIC_ARN, tableBefore, publishCalls, now, table, handler, apiLocals, locals, result,
                  published, putCalls, console >>

\* await putItem(enrichedRecord) throws: the row's catch counts the row.
dataProcessorPutItemThrows ==
  /\ pc = "putItem"
  /\ console' = Append(console, [ level |-> "error", line |-> i + 1 ])
  /\ errorCount' = errorCount + 1
  /\ i' = i + 1
  /\ pc' = "loop"
  /\ UNCHANGED << TOPIC_ARN, tableBefore, publishCalls, now, table, handler, apiLocals, csvContent, lines, headers, processedCount,
                  records, enrichedRecord, error, result, published, putCalls >>

\* ((processedCount / (lines.length - 1)) * 100).toFixed(2) + '%', in
\* hundredths of a percent; 0 / 0 is NaN.
SuccessRate(processed, total) ==
  IF total = 0 THEN [ nan |-> TRUE, hundredths |-> 0 ]
  ELSE [ nan |-> FALSE, hundredths |-> (processed * 20000 + total) \div (2 * total) ]

\* Variant of Notification: records_failed taken from the line total.
Notification_FromTotal ==
  [ event_type        |-> "DATA_PROCESSING_COMPLETED",
    records_processed |-> processedCount,
    records_failed    |-> Len(lines) - 1 - processedCount,
    total_records     |-> Len(lines) - 1 ]

\* The notification object built after the loop.
Notification ==
  [ event_type        |-> "DATA_PROCESSING_COMPLETED",
    records_processed |-> processedCount,
    records_failed    |-> errorCount,
    total_records     |-> Len(lines) - 1 ]

\* The result object returned after the notification.
Result200 ==
  [ statusCode |-> 200,
    body |-> [ message           |-> "Processamento concluido com sucesso",
               records_processed |-> processedCount,
               records_failed    |-> errorCount,
               total_records     |-> Len(lines) - 1,
               success_rate      |-> SuccessRate(processedCount, Len(lines) - 1) ] ]

\* The result object the outer catch returns.
Result500(msg) ==
  [ statusCode |-> 500,
    body |-> [ message |-> "Erro no processamento", error |-> msg ] ]

\* The message the outer catch publishes.
FailureNotification ==
  [ event_type |-> "DATA_PROCESSING_FAILED", error |-> error ]

\* The loop is over and no topic is configured: the result is returned.
dataProcessorReturn ==
  /\ pc = "loop"
  /\ i >= Len(lines)
  /\ TOPIC_ARN = ""
  /\ result' = Result200
  /\ pc' = "done"
  /\ UNCHANGED << TOPIC_ARN, tableBefore, publishCalls, now, table, handler, apiLocals, locals, error, published,
                  putCalls, console >>

\* The loop is over and a topic is configured: publishMessage is awaited.
dataProcessorNotify ==
  /\ pc = "loop"
  /\ i >= Len(lines)
  /\ TOPIC_ARN # ""
  /\ publishCalls' = Append(publishCalls, Notification)
  /\ pc' = "publishCompleted"
  /\ UNCHANGED << TOPIC_ARN, tableBefore, now, table, handler, apiLocals, locals, error, result,
                  published, putCalls, console >>

\* await publishMessage(topicArn, notification, ...) returns.
dataProcessorPublish ==
  /\ pc = "publishCompleted"
  /\ published' = Append(published, Notification)
  /\ result' = Result200
  /\ pc' = "done"
  /\ UNCHANGED << TOPIC_ARN, tableBefore, publishCalls, now, table, handler, apiLocals, locals, error, putCalls,
                  console >>

\* await publishMessage(topicArn, notification, ...) throws: nothing around
\* the call catches it but the outer catch.
dataProcessorPublishThrows ==
  /\ pc = "publishCompleted"
  /\ error' = "PublishFailed"
  /\ pc' = "catch"
  /\ UNCHANGED << TOPIC_ARN, tableBefore, publishCalls, now, table, handler, apiLocals, locals, result, published,
                  putCalls, console >>

\* The outer catch without a topic: the 500 result is returned.
dataProcessorCatch ==
  /\ pc = "catch"
  /\ TOPIC_ARN = ""
  /\ result' = Result500(error)
  /\ pc' = "done"
  /\ UNCHANGED << TOPIC_ARN, tableBefore, publishCalls, now, table, handler, apiLocals, locals, error, published,
                  putCalls, console >>

\* The outer catch with a topic: the failure notification is awaited.
dataProcessorCatchNotify ==
  /\ pc = "catch"
  /\ TOPIC_ARN # ""
  /\ publishCalls' = Append(publishCalls, FailureNotification)
  /\ pc' = "publishFailed"
  /\ UNCHANGED << TOPIC_ARN, tableBefore, now, table, handler, apiLocals, locals, error, result,
                  published, putCalls, console >>

\* The failure notification is accepted; the 500 result is returned.
dataProcessorCatchPublish ==
  /\ pc = "publishFailed"
  /\ published' = Append(published, FailureNotification)
  /\ result' = Result500(error)
  /\ pc' = "done"
  /\ UNCHANGED << TOPIC_ARN, tableBefore, publishCalls, now, table, handler, apiLocals, locals, error, putCalls,
                  console >>

\* Variant of dataProcessorCatchPublishThrows: no try around the failure
\* notification, the handler rejects and returns nothing.
dataProcessorCatchPublishThrows_Rethrows ==
  /\ pc = "publishFailed"
  /\ result' = NoResult
  /\ pc' = "done"
  /\ UNCHANGED << TOPIC_ARN, tableBefore, publishCalls, now, table, handler, apiLocals,
                  locals, error, published, putCalls, console >>

\* The failure notification throws: the inner catch logs it; the 500 result
\* is returned all the same.
dataProcessorCatchPublishThrows ==
  /\ pc = "publishFailed"
  /\ result' = Result500(error)
  /\ pc' = "done"
  /\ UNCHANGED << TOPIC_ARN, tableBefore, publishCalls, now, table, handler, apiLocals, locals, error, published,
                  putCalls, console >>

(***************************************************************************)
(* createRecord: exports.handler of the API path.                          *)
(***************************************************************************)
\* API Gateway delivers the request.
createRecordInvoke ==
  /\ pc = "idle"
  /\ handler' = "createRecord"
  /\ event' \in Events
  /\ pc' = "handle"
  /\ UNCHANGED << TOPIC_ARN, tableBefore, publishCalls, now, table, locals, body, item, error, result,
                  published, putCalls, console >>

\* Variant of createRecordOptions: the preflight check comes after the body
\* is parsed.
createRecordOptions_AfterParse ==
  /\ pc = "handle"
  /\ event.httpMethod = "OPTIONS"
  /\ IF IsString(event.body) /\ JsonParseThrows(event.body.text)
     THEN /\ result' = Response(400, "Invalid JSON", "Body da requisicao nao e um JSON valido",
                                NoItem)
          /\ body' = body
     ELSE /\ result' = Response(200, Undefined, "CORS preflight successful", NoItem)
          /\ body' = IF IsString(event.body) THEN JsonParse(event.body.text) ELSE event.body
  /\ pc' = "done"
  /\ UNCHANGED << TOPIC_ARN, tableBefore, publishCalls, now, table, handler, locals, event, item, error,
                  published, putCalls, console >>

\* if (event.httpMethod === 'OPTIONS') return 200, ahead of the try.
createRecordOptions ==
  /\ pc = "handle"
  /\ event.httpMethod = "OPTIONS"
  /\ result' = Response(200, Undefined, "CORS preflight successful", NoItem)
  /\ pc' = "done"
  /\ UNCHANGED << TOPIC_ARN, tableBefore, publishCalls, now, table, handler, locals, apiLocals, error,
                  published, putCalls, console >>

\* Variant of createRecordMethodNotAllowed: the method check comes after
\* the body is parsed.
createRecordMethodNotAllowed_AfterParse ==
  /\ pc = "handle"
  /\ event.httpMethod # "OPTIONS"
  /\ event.httpMethod # "POST"
  /\ IF IsString(event.body) /\ JsonParseThrows(event.body.text)
     THEN /\ result' = Response(400, "Invalid JSON", "Body da requisicao nao e um JSON valido",
                                NoItem)
          /\ body' = body
     ELSE /\ result' = Response(405, "Method Not Allowed", "Apenas POST e permitido", NoItem)
          /\ body' = IF IsString(event.body) THEN JsonParse(event.body.text) ELSE event.body
  /\ pc' = "done"
  /\ UNCHANGED << TOPIC_ARN, tableBefore, publishCalls, now, table, handler, locals, event, item, error,
                  published, putCalls, console >>

\* if (event.httpMethod !== 'POST') return 405
createRecordMethodNotAllowed ==
  /\ pc = "handle"
  /\ event.httpMethod # "OPTIONS"
  /\ event.httpMethod # "POST"
  /\ result' = Response(405, "Method Not Allowed", "Apenas POST e permitido", NoItem)
  /\ pc' = "done"
  /\ UNCHANGED << TOPIC_ARN, tableBefore, publishCalls, now, table, handler, locals, apiLocals, error,
                  published, putCalls, console >>

\* Variant of createRecordInvalidJson: no try around JSON.parse, the
\* SyntaxError reaches the outer catch.
createRecordInvalidJson_Propagates ==
  /\ pc = "handle"
  /\ event.httpMethod = "POST"
  /\ IsString(event.body)
  /\ JsonParseThrows(event.body.text)
  /\ error' = "SyntaxError"
  /\ pc' = "catch500"
  /\ UNCHANGED << TOPIC_ARN, tableBefore, publishCalls, now, table, handler, locals, apiLocals, result,
                  published, putCalls, console >>

\* JSON.parse(event.body) throws: the inner catch returns 400.
createRecordInvalidJson ==
  /\ pc = "handle"
  /\ event.httpMethod = "POST"
  /\ IsString(event.body)
  /\ JsonParseThrows(event.body.text)
  /\ result' = Response(400, "Invalid JSON", "Body da requisicao nao e um JSON valido",
                        NoItem)
  /\ pc' = "done"
  /\ UNCHANGED << TOPIC_ARN, tableBefore, publishCalls, now, table, handler, locals, apiLocals, error,
                  published, putCalls, console >>

\* body = typeof event.body === 'string' ? JSON.parse(event.body) : event.body
createRecordParse ==
  /\ pc = "handle"
  /\ event.httpMethod = "POST"
  /\ ~(IsString(event.body) /\ JsonParseThrows(event.body.text))
  /\ body' = IF IsString(event.body) THEN JsonParse(event.body.text) ELSE event.body
  /\ pc' = "validate"
  /\ UNCHANGED << TOPIC_ARN, tableBefore, publishCalls, now, table, handler, locals, event, item, error, result,
                  published, putCalls, console >>

\* body.nome of an undefined or null body throws a TypeError, which the
\* outer catch receives.
createRecordBodyThrows ==
  /\ pc = "validate"
  /\ PropertyReadThrows(body)
  /\ error' = "TypeError"
  /\ pc' = "catch500"
  /\ UNCHANGED << TOPIC_ARN, tableBefore, publishCalls, now, table, handler, locals, apiLocals, result,
                  published, putCalls, console >>

\* if (!body.nome) return 400
createRecordValidationError ==
  /\ pc = "validate"
  /\ ~PropertyReadThrows(body)
  /\ Falsy(body.nome)
  /\ result' = Response(400, "Validation Error", "Campo nome e obrigatorio", NoItem)
  /\ pc' = "done"
  /\ UNCHANGED << TOPIC_ARN, tableBefore, publishCalls, now, table, handler, locals, apiLocals, error,
                  published, putCalls, console >>

\* itemId = body.id || uuidv4(); timestamp = Date.now(); the item is built
\* and handed to putItem.
createRecordEnrich ==
  /\ pc = "validate"
  /\ ~PropertyReadThrows(body)
  /\ ~Falsy(body.nome)
  /\ \E t \in { now, now + 1 }, uuid \in FreshUuids(table) :
       /\ now' = t
       /\ item' = Item(body, uuid, t)
  /\ putCalls' = Append(putCalls, [ line |-> 0, item |-> item' ])
  /\ pc' = "apiPutItem"
  /\ UNCHANGED << TOPIC_ARN, tableBefore, publishCalls, table, handler, locals, event, body, error, result,
                  published, console >>

\* The message published for a created record.
CreatedNotification ==
  [ event_type |-> "RECORD_CREATED_VIA_API", record_id |-> item.id ]

\* await putItem(item) returns and no topic is configured: 201.
createRecordPutItem ==
  /\ pc = "apiPutItem"
  /\ TOPIC_ARN = ""
  /\ table' = Put(table, item)
  /\ result' = Response(201, Undefined, "Registro criado com sucesso", item)
  /\ pc' = "done"
  /\ UNCHANGED << TOPIC_ARN, tableBefore, publishCalls, now, handler, locals, apiLocals, error, published,
                  putCalls, console >>

\* await putItem(item) returns and a topic is configured: publishMessage is
\* awaited.
createRecordPutItemNotify ==
  /\ pc = "apiPutItem"
  /\ TOPIC_ARN # ""
  /\ table' = Put(table, item)
  /\ publishCalls' = Append(publishCalls, CreatedNotification)
  /\ pc' = "apiPublish"
  /\ UNCHANGED << TOPIC_ARN, tableBefore, now, handler, locals, apiLocals, error, result,
                  published, putCalls, console >>

\* Variant of createRecordPutItemThrows: the store error is swallowed and
\* the call answers 201.
createRecordPutItemThrows_Swallowed ==
  /\ pc = "apiPutItem"
  /\ result' = Response(201, Undefined, "Registro criado com sucesso", item)
  /\ pc' = "done"
  /\ UNCHANGED << TOPIC_ARN, tableBefore, publishCalls, now, table, handler, locals,
                  apiLocals, error, published, putCalls, console >>

\* await putItem(item) throws: the outer catch receives the error.
createRecordPutItemThrows ==
  /\ pc = "apiPutItem"
  /\ error' = "PutFailed"
  /\ pc' = "catch500"
  /\ UNCHANGED << TOPIC_ARN, tableBefore, publishCalls, now, table, handler, locals, apiLocals, result,
                  published, putCalls, console >>

\* await publishMessage(...) returns: 201.
createRecordPublish ==
  /\ pc = "apiPublish"
  /\ published' = Append(published, CreatedNotification)
  /\ result' = Response(201, Undefined, "Registro criado com sucesso", item)
  /\ pc' = "done"
  /\ UNCHANGED << TOPIC_ARN, tableBefore, publishCalls, now, table, handler, locals, apiLocals, error,
                  putCalls, console >>

\* await publishMessage(...) throws: nothing around the call catches it but
\* the outer catch.
createRecordPublishThrows ==
  /\ pc = "apiPublish"
  /\ error' = "PublishFailed"
  /\ pc' = "catch500"
  /\ UNCHANGED << TOPIC_ARN, tableBefore, publishCalls, now, table, handler, locals, apiLocals, result,
                  published, putCalls, console >>

\* The outer catch: 500 with the message of the error.
createRecordCatch ==
  /\ pc = "catch500"
  /\ result' = Response(500, "Internal Server Error", error, NoItem)
  /\ pc' = "done"
  /\ UNCHANGED << TOPIC_ARN, tableBefore, publishCalls, now, table, handler, locals, apiLocals, error,
                  published, putCalls, console >>

Next ==
  \/ dataProcessorInvoke
  \/ dataProcessorGetObject
  \/ dataProcessorGetObjectThrows
  \/ dataProcessorSkipBlank
  \/ dataProcessorReject
  \/ dataProcessorEnrich
  \/ dataProcessorPutItem
  \/ dataProcessorPutItemThrows
  \/ dataProcessorReturn
  \/ dataProcessorNotify
  \/ dataProcessorPublish
  \/ dataProcessorPublishThrows
  \/ dataProcessorCatch
  \/ dataProcessorCatchNotify
  \/ dataProcessorCatchPublish
  \/ dataProcessorCatchPublishThrows
  \/ createRecordInvoke
  \/ createRecordOptions
  \/ createRecordMethodNotAllowed
  \/ createRecordInvalidJson
  \/ createRecordParse
  \/ createRecordBodyThrows
  \/ createRecordValidationError
  \/ createRecordEnrich
  \/ createRecordPutItem
  \/ createRecordPutItemNotify
  \/ createRecordPutItemThrows
  \/ createRecordPublish
  \/ createRecordPublishThrows
  \/ createRecordCatch

Spec == Init /\ [][Next]_vars

(***************************************************************************)
(* Vocabulary of the properties.                                           *)
(***************************************************************************)
Batch == handler = "dataProcessor"
Api == handler = "createRecord"

\* The source was read and the loop has consumed every line.
RowsDone ==
  /\ Batch
  /\ lines # <<>>
  /\ pc \in { "loop", "publishCompleted", "catch", "publishFailed", "done" }
  /\ i >= Len(lines)

\* Console entries of one level; entries printed for one line.
Printed(level) == { k \in 1..Len(console) : console[k].level = level }
PrintedFor(n) == { k \in 1..Len(console) : console[k].line = n }
PutCallsFor(n) == { k \in 1..Len(putCalls) : putCalls[k].line = n }

\* The published messages of one event type.
PublishedOfType(type) == { k \in 1..Len(published) : published[k].event_type = type }

\* Line n of the object (1 is the header) is a data row without a non-empty
\* id or without a non-empty nome.
LacksIdentity(n) ==
  LET idCell == RowField(headers, TrimCells(lines[n]), "id")
      nomeCell == RowField(headers, TrimCells(lines[n]), "nome")
  IN idCell \in { Undefined, "" } \/ nomeCell \in { Undefined, "" }

\* The data lines that are not blank.
DataRows == { n \in 2..Len(lines) : ~IsBlank(lines[n]) }

\* C1: Batch path: once the CSV is read and every row attempted, a failure
\* of the completion notification leaves the batch result alone: the
\* handler returns 200 with the row statistics and publishes no
\* DATA_PROCESSING_FAILED message.
C1_NotifierFailureKeepsResult ==
  (Batch /\ pc = "done" /\ error = "PublishFailed")
    => /\ result.statusCode = 200
       /\ result.body.records_processed = processedCount
       /\ result.body.records_failed = errorCount
       /\ PublishedOfType("DATA_PROCESSING_FAILED") = {}

\* C2: API path: when putItem stored the record, the response is 201
\* whether publishMessage returned or threw.
C2_StoredMeans201 ==
  (Api /\ pc = "done" /\ item \in table) => result.statusCode = 201

\* C3: Batch path: a row whose putItem throws is counted once in
\* records_failed, the error stays inside the row loop, every later row is
\* still attempted, and no number of store failures makes the batch fail.
C3_StoreFailureIsolated ==
  Batch =>
    /\ errorCount = Cardinality(Printed("warn")) + Cardinality(Printed("error"))
    /\ \A n \in 1..Len(lines) : Cardinality(PrintedFor(n)) <= 1
    /\ pc \in { "catch", "publishFailed" } => error \in { "TypeError", "NoSuchKey", "PublishFailed" }
    /\ RowsDone => \A n \in DataRows : Cardinality(PrintedFor(n)) = 1
    /\ (pc = "done" /\ lines # <<>> /\ error # "PublishFailed")
         => /\ RowsDone
            /\ result.statusCode = 200
            /\ result.body.records_failed >= Cardinality(Printed("error"))

\* C3 witness: a batch ended with 200 after a putItem failure on one row
\* and a later row stored.
C3_Witness ==
  /\ Batch /\ pc = "done" /\ result.statusCode = 200
  /\ \E k \in Printed("error"), m \in Printed("log") : k < m

\* C4: Batch path: a data row without a non-empty id or without a non-empty
\* nome never reaches putItem, adds exactly one to records_failed, and the
\* next row is processed.
C4_IncompleteRowRejected ==
  Batch =>
    /\ \A n \in DataRows :
         (n <= i /\ LacksIdentity(n))
           => /\ PutCallsFor(n) = {}
              /\ Cardinality(PrintedFor(n)) = 1
              /\ \A k \in PrintedFor(n) : console[k].level = "warn"
    /\ errorCount = Cardinality(Printed("warn")) + Cardinality(Printed("error"))
    /\ (lines # <<>> /\ pc \notin { "loop", "putItem" }) => i = Len(lines)

\* C4 witness: a row missing both id and nome was rejected and a later row
\* was stored.
C4_Witness ==
  /\ Batch /\ pc = "done"
  /\ \E n \in DataRows :
       /\ RowField(headers, TrimCells(lines[n]), "id") \in { Undefined, "" }
       /\ RowField(headers, TrimCells(lines[n]), "nome") \in { Undefined, "" }
       /\ \E k \in Printed("log") : console[k].line > n

\* The object has a header line, N data rows and no blank line.
NoBlankLines == csvContent # <<>> /\ \A n \in 1..Len(csvContent) : ~IsBlank(csvContent[n])

\* C5: Batch path: for an object with a header, N data rows and no blank
\* line, exactly N rows are attempted and records_processed +
\* records_failed = N = total_records, whatever the rows' outcomes.
C5_CountsAddUp ==
  (RowsDone /\ NoBlankLines)
    => LET N == Len(csvContent) - 1
       IN /\ Len(console) = N
          /\ processedCount + errorCount = N
          /\ Notification.total_records = N
          /\ Notification.records_processed + Notification.records_failed = N
          /\ (pc = "done" /\ result.statusCode = 200)
               => /\ result.body.total_records = N
                  /\ result.body.records_processed + result.body.records_failed = N

\* C5 witness: three data rows, one stored, one rejected, one failed in the
\* store.
C5_Witness ==
  /\ RowsDone /\ NoBlankLines /\ pc = "done" /\ result.statusCode = 200
  /\ Len(csvContent) = 4
  /\ Printed("log") # {} /\ Printed("warn") # {} /\ Printed("error") # {}

\* C6: Batch path: blank lines between the header and the data or between
\* data rows count toward no total: total_records, in the notification and
\* in the result, is the number of non-blank data rows.
C6_BlankLinesNotCounted ==
  (RowsDone /\ pc = "done" /\ result.statusCode = 200)
    => /\ result.body.records_processed + result.body.records_failed = Cardinality(DataRows)
       /\ result.body.total_records = Cardinality(DataRows)
       /\ \A k \in PublishedOfType("DATA_PROCESSING_COMPLETED") :
            published[k].total_records = Cardinality(DataRows)

\* The request carries no non-empty nome: no body, a null body, or a body
\* that reads as JSON and has no nome or an empty one.
CarriesNoNome(b) ==
  /\ ~(b.type = "string" /\ b.text \in { "{nome", "" })
  /\ LET v == IF b.type = "string" THEN JsonParse(b.text) ELSE b
     IN v.nome \in { Undefined, Null, "" }

\* C7: API path: a POST request whose body carries no non-empty nome, an
\* absent or null body included, gets 400 'Validation Error', and neither
\* putItem nor publishMessage is called.
C7_NoNomeIs400 ==
  (Api /\ pc = "done" /\ event.httpMethod = "POST" /\ CarriesNoNome(event.body))
    => /\ result.statusCode = 400
       /\ result.body.error = "Validation Error"
       /\ putCalls = <<>>
       /\ published = <<>>

\* C8: API path: an OPTIONS request returns 200 for every body, valid,
\* malformed or absent; the body is not parsed, putItem and publishMessage
\* are not called.
C8_OptionsIs200 ==
  (Api /\ event.httpMethod = "OPTIONS")
    => /\ pc \in { "handle", "done" }
       /\ body = UnsetBody
       /\ putCalls = <<>> /\ published = <<>> /\ table = tableBefore
       /\ pc = "done" => result.statusCode = 200

\* C8 witness: an OPTIONS request with a malformed JSON body was answered.
C8_Witness ==
  /\ Api /\ pc = "done" /\ event.httpMethod = "OPTIONS"
  /\ event.body.type = "string" /\ event.body.text = "{nome"
  /\ result.statusCode = 200

\* C9: API path: a request whose method is neither OPTIONS nor POST returns
\* 405 before the body is interpreted, also with a malformed body or one
\* without nome; putItem and publishMessage are never called.
C9_OtherMethodIs405 ==
  (Api /\ event.httpMethod \notin { "OPTIONS", "POST" })
    => /\ pc \in { "handle", "done" }
       /\ body = UnsetBody
       /\ putCalls = <<>> /\ published = <<>> /\ table = tableBefore
       /\ pc = "done" => /\ result.statusCode = 405
                         /\ result.body.error = "Method Not Allowed"

\* C9 witness: a GET request with a malformed JSON body was answered.
C9_Witness ==
  /\ Api /\ pc = "done" /\ event.httpMethod = "GET"
  /\ event.body.type = "string" /\ event.body.text = "{nome"
  /\ result.statusCode = 405

\* C10: API path: a POST request whose body is a string that is not JSON
\* returns 400 'Invalid JSON' and stops: no putItem, no publishMessage.
C10_MalformedIs400 ==
  (Api /\ event.httpMethod = "POST" /\ event.body.type = "string"
       /\ event.body.text \in { "{nome", "" })
    => /\ pc \in { "handle", "done" }
       /\ putCalls = <<>> /\ published = <<>> /\ table = tableBefore
       /\ pc = "done" => /\ result.statusCode = 400
                         /\ result.body.error = "Invalid JSON"

\* C10 witness: a POST request with a malformed JSON body was answered.
C10_Witness ==
  /\ Api /\ pc = "done" /\ event.httpMethod = "POST"
  /\ event.body.type = "string" /\ event.body.text = "{nome"
  /\ result.statusCode = 400

\* The ids of the records of a table.
IdsOf(tbl) == { x.id : x \in tbl }

\* C11: API path: a POST request with a non-empty nome and no id, when the
\* store accepts the record, gets 201 with a generated non-empty id that no
\* earlier call returned and that is the id of the record handed to putItem.
C11_GeneratedIdReturned ==
  (Api /\ pc = "done" /\ event.httpMethod = "POST" /\ body.nome \notin { Undefined, Null, "" }
       /\ body.id = Undefined /\ item \in table)
    => /\ result.statusCode = 201
       /\ result.body.id \notin { Undefined, Null, "" }
       /\ result.body.id \notin IdsOf(tableBefore)
       /\ Len(putCalls) = 1
       /\ result.body.id = putCalls[1].item.id

\* A value neither parseFloat nor parseInt reads a number from.
NotANumber(v) == v \in { Undefined, "", "abc" }

\* Row n went through validation.
Validated(n) == n <= i \/ (n = i + 1 /\ pc = "putItem")

\* C12: Enrichment never rejects a record for its numeric fields: a row or
\* payload with valid identity fields and an absent or unparseable preco or
\* estoque is handed to putItem with preco = 0, estoque = 0 respectively,
\* and counted as processed when the store accepts it.
C12_NumericFieldsCoerced ==
  /\ Batch =>
       /\ \A n \in DataRows :
            (Validated(n) /\ ~LacksIdentity(n))
              => /\ Cardinality(PutCallsFor(n)) = 1
                 /\ \A k \in PutCallsFor(n) :
                      /\ NotANumber(RowField(headers, TrimCells(lines[n]), "preco"))
                           => putCalls[k].item.preco = 0
                      /\ NotANumber(RowField(headers, TrimCells(lines[n]), "estoque"))
                           => putCalls[k].item.estoque = 0
                      /\ (\E c \in PrintedFor(n) : console[c].level = "log")
                           => \E x \in table : /\ x.id = putCalls[k].item.id
                                                /\ x.timestamp = putCalls[k].item.timestamp
       /\ processedCount = Cardinality(Printed("log"))
  /\ Api =>
       /\ (pc \in { "apiPutItem", "apiPublish" } \/ (pc \in { "catch500", "done" } /\ item # NoItem))
            => /\ Len(putCalls) = 1
               /\ putCalls[1].item = item
               /\ NotANumber(body.preco) => item.preco = 0
               /\ NotANumber(body.estoque) => item.estoque = 0
       /\ (~PropertyReadThrows(body) /\ body # UnsetBody
             /\ body.nome \notin { Undefined, Null, "" } /\ pc # "validate")
            => Len(putCalls) = 1

\* C12 witness: the row ' 2 ,Bob,abc,-4' was stored with preco = 0.
C12_Witness ==
  /\ Batch /\ pc = "done"
  /\ \E n \in DataRows :
       /\ RowField(headers, TrimCells(lines[n]), "preco") = "abc"
       /\ \E k \in PutCallsFor(n) : putCalls[k].item.preco = 0
       /\ \E c \in PrintedFor(n) : console[c].level = "log"

\* C13: every record handed to putItem, on both paths, has preco >= 0 and
\* estoque >= 0, whatever the input, negative numbers included.
C13_NonNegativeNumbers ==
  \A k \in 1..Len(putCalls) :
    /\ putCalls[k].item.preco >= 0
    /\ putCalls[k].item.estoque >= 0

\* The numbers among the values of this model.
NumberValues == { "#0", "#3", "#7", "#9.5", "#-4" }

\* typeof v === 'string'
IsStringValue(v) == v \notin { Undefined, Null } \cup NumberValues

\* C14: every record handed to putItem, on both paths, has both key fields
\* set: id is a non-empty string (the supplied id coerced to a string, or a
\* generated identifier) and timestamp is an integer number of milliseconds.
C14_KeyFieldsSet ==
  \A k \in 1..Len(putCalls) :
    /\ IsStringValue(putCalls[k].item.id)
    /\ putCalls[k].item.id # ""
    /\ putCalls[k].item.timestamp \in Nat

\* The table holds a record with the key of this one.
KeyTaken(tbl, rec) == \E x \in tbl : x.id = rec.id /\ x.timestamp = rec.timestamp

\* C15: the pipeline only ever creates new records: no putItem call of
\* either path uses an (id, timestamp) key the store already holds, so
\* after a batch the store holds records_processed more records than
\* before, also when two puts for one id read the same clock millisecond.
C15_OnlyNewRecords ==
  /\ (Batch /\ pc = "putItem") => ~KeyTaken(table, enrichedRecord)
  /\ (Api /\ pc = "apiPutItem") => ~KeyTaken(table, item)
  /\ RowsDone => Cardinality(table) = Cardinality(tableBefore) + processedCount

\* The calls of publishMessage with a message of one event type.
PublishCallsOfType(type) ==
  { k \in 1..Len(publishCalls) : publishCalls[k].event_type = type }

\* C16: Batch path: when getObject throws, the batch fails as a whole: the
\* handler returns 500 with the error message, putItem is never called, a
\* DATA_PROCESSING_FAILED notification is attempted at most once and its
\* failure is swallowed.
C16_SourceUnavailable ==
  (Batch /\ error = "NoSuchKey")
    => /\ pc \in { "catch", "publishFailed", "done" }
       /\ putCalls = <<>> /\ table = tableBefore
       /\ Len(publishCalls) <= 1
       /\ PublishCallsOfType("DATA_PROCESSING_FAILED") = 1..Len(publishCalls)
       /\ TOPIC_ARN = "" => publishCalls = <<>>
       /\ pc = "done" => /\ result.statusCode = 500
                         /\ result.body.error = "NoSuchKey"

\* C16 witness: the source was unreadable, the failure notification was
\* attempted and failed, and 500 was returned.
C16_Witness ==
  /\ Batch /\ pc = "done" /\ error = "NoSuchKey"
  /\ Len(publishCalls) = 1 /\ published = <<>>
  /\ result.statusCode = 500

\* C17: Batch path: the handler ends in 500 only while retrieving or
\* decoding the source; once the source is read and the header decoded it
\* returns 200 for every combination of row outcomes.
C17_FailureOnlyBeforeRows ==
  (Batch /\ pc = "done" /\ lines # <<>>) => result.statusCode = 200

\* C18: API path: when putItem throws for a valid POST request, the call
\* ends with 500 carrying the message of the error; no notification is
\* published and no 201 is returned.
C18_StoreFailureIs500 ==
  (Api /\ Len(putCalls) = 1 /\ pc \in { "catch500", "done" } /\ table = tableBefore)
    => /\ error = "PutFailed"
       /\ publishCalls = <<>> /\ published = <<>>
       /\ pc = "done" => /\ result.statusCode = 500
                         /\ result.body.error = "Internal Server Error"
                         /\ result.body.message = error

\* C18 witness: a valid POST request whose putItem threw was answered.
C18_Witness ==
  /\ Api /\ pc = "done" /\ error = "PutFailed"
  /\ event.httpMethod = "POST" /\ Len(putCalls) = 1
  /\ result.statusCode = 500

\* C19: Batch path: rows are processed one at a time, in source order and
\* without retries: putItem is called at most once per data row, the call
\* for a row completes before the next row is validated, and a row whose
\* putItem failed is not attempted again.
C19_SequentialNoRetry ==
  Batch =>
    /\ \A k \in 1..(Len(putCalls) - 1) : putCalls[k].line < putCalls[k + 1].line
    /\ \A k \in 1..(Len(console) - 1) : console[k].line < console[k + 1].line
    /\ \A k \in 1..Len(console) : console[k].line <= i
    /\ Len(putCalls) = Cardinality(Printed("log")) + Cardinality(Printed("error"))
                         + (IF pc = "putItem" THEN 1 ELSE 0)
    /\ pc = "putItem" => putCalls[Len(putCalls)].line = i + 1
    /\ pc # "putItem" => \A k \in 1..Len(putCalls) : putCalls[k].line <= i

\* C19 witness: a row whose putItem threw was followed by another row
\* handed to putItem.
C19_Witness ==
  /\ Batch /\ pc = "done"
  /\ \E c \in Printed("error"), k \in 1..Len(putCalls) : putCalls[k].line > console[c].line

\* C20: Batch path: the DATA_PROCESSING_COMPLETED notification is published
\* at most once per invocation, only after the last row was attempted and
\* only when a topic is configured; its records_processed and
\* records_failed are the number of successful putItem calls and of
\* rejected or failed rows, the values the returned result reports.
C20_CompletionNotification ==
  Batch =>
    /\ Cardinality(PublishCallsOfType("DATA_PROCESSING_COMPLETED")) <= 1
    /\ TOPIC_ARN = "" => publishCalls = <<>>
    /\ \A k \in PublishCallsOfType("DATA_PROCESSING_COMPLETED") :
         /\ RowsDone
         /\ publishCalls[k].records_processed = Cardinality(Printed("log"))
         /\ publishCalls[k].records_failed
              = Cardinality(Printed("warn")) + Cardinality(Printed("error"))
    /\ \A k \in PublishedOfType("DATA_PROCESSING_COMPLETED") :
         /\ \E c \in PublishCallsOfType("DATA_PROCESSING_COMPLETED") :
              publishCalls[c] = published[k]
         /\ pc = "done"
         /\ result.statusCode = 200
         /\ result.body.records_processed = published[k].records_processed
         /\ result.body.records_failed = published[k].records_failed

\* C20 witness: a completion notification reporting stored and failed rows
\* was published and the result returned.
C20_Witness ==
  /\ Batch /\ pc = "done" /\ result.statusCode = 200
  /\ \E k \in PublishedOfType("DATA_PROCESSING_COMPLETED") :
       published[k].records_processed >= 1 /\ published[k].records_failed >= 1

=============================================================================
